---- MODULE Spec2Model ----
(***************************************************************************)
(* Progress-reporting operations of the Electron Build Tools extension:    *)
(*   "pipe"  - electron-build-tools.build over childProcess.exec + readline *)
(*             on the child's stdout        (src/unnamed/part_000:37-114)   *)
(*   "relay" - electron-build-tools.build as a vscode.Task whose output is  *)
(*             teed to a local socket server (src/unnamed/part_001:43-144)  *)
(*   "sync"  - electron-build-tools.sync     (src/unnamed/part_001:209-267, *)
(*             the same text as src/unnamed/part_000:128-186)               *)
(* Every handler of the source is one action.  Handlers run to completion  *)
(* on the single event loop, promise reactions (.finally) included.        *)
(***************************************************************************)
EXTENDS Integers, Sequences, FiniteSets, TLC

VARIABLES
  variant,            \* which command was invoked
  phase,              \* relay: "starting" while executeTask is awaited
  outcome,            \* settlement of the promise given to withProgress
  attempts,           \* number of resolve()/reject()/throw settlements tried
  killed,             \* `let killed` of the pipe and sync commands
  cancelSeen,         \* token.onCancellationRequested has fired
  errSeen,            \* childProcess "error" has fired
  errText,            \* error.message of that event
  exitSeen,           \* "exit" / onDidEndTaskProcess has fired
  exitCode,           \* the code it carried
  taskEnded,          \* onDidEndTask has fired (relay)
  serverErr,          \* relay: socketServer "error": none / uncaught / handled
  messages,           \* vscode.window.showErrorMessage calls, in order
  events,             \* progress.report calls, in order
  fed,                \* lines delivered to the line handler, in order
  lastBuildProgress,  \* `let lastBuildProgress`
  initialProgress,    \* `let initialProgress` (sync)
  kills,              \* killThemAll / taskExecution.terminate invocations
  transportOpen,      \* socket server (relay) or stdout line reader is open
  conns,              \* relay: connections accepted by socketServer
  rejection,          \* the reason the promise was rejected with, "" if none
  cancelOrder,        \* what the cancellation handler did, in statement order
  buffer,             \* readline: the incomplete last line received so far
  sent,               \* characters the child has written to its stdout
  callerEnv,          \* process.env of the extension host
  env,                \* the environment the command is run with
  unheard,            \* relay: a connection arrived with no handler registered
  globalBusy,         \* `let globalBusy` of utils.ts
  busyContext,        \* the context key "electron-build-tools:busy"
  work,               \* the withBusyState calls: where each one is
  invoked,            \* invocations of a registerCommandNoBusy command
  result,             \* getElectronTests: `let result`, the data received
  testsPromise,       \* getElectronTests: the promise it returns
  testsSeen           \* getElectronTests: the events that have fired

busyVars == <<globalBusy, busyContext, work, invoked>>
testVars == <<result, testsPromise, testsSeen>>

vars == <<variant, phase, outcome, attempts, killed, cancelSeen, errSeen, errText,
          exitSeen, exitCode, taskEnded, serverErr, messages, events, fed,
          lastBuildProgress, initialProgress, kills, transportOpen,
          conns, rejection, cancelOrder, buffer, sent, callerEnv, env, unheard, busyVars, testVars>>

----------------------------------------------------------------------------
(* Bounds of the model *)

MaxLines == 2
MaxParseLines == 4
MaxConns == 2
MaxParseConns == 1
MaxSyncLines == 11
MaxSent == 5
MaxRuleLines == 3
MaxMarkLines == 3
MaxBusyCalls == 2
MaxInvocations == 2
MaxData == 5

(* exitCode of an "exit" event is number | null; a task process may end    *)
(* with exitCode undefined.  Both are falsy: one value stands for them.    *)
NullCode == -1

ExitCodes == {NullCode, 0, 1, 2}
ParseExitCodes == {0, 1}
ErrTexts == {"spawn ENOENT", "kill EPERM"}
Variants == {"pipe", "relay", "sync"}

----------------------------------------------------------------------------
(* Output lines.  A line is a sequence of tokens; its text is their        *)
(* concatenation.  Digits, "%", "-", "/" and " " are single characters,    *)
(* words are kept whole.                                                   *)

Digits == <<"0", "1", "2", "3", "4", "5", "6", "7", "8", "9">>
IsDigit(t) == \E i \in 1..10 : Digits[i] = t
DigitVal(t) == (CHOOSE i \in 1..10 : Digits[i] = t) - 1

LRun == <<"Running", " ", "ninja", "...">>
L10 == <<"1", "0", "%", " ", "5", "/", "5", "0">>
L25 == <<"2", "5", "%", " ", "1", "2", "/", "5", "0">>
L30 == <<"3", "0", "%", " ", "1", "5", "/", "5", "0">>
LNeg == <<"-", "5", "%">>
LOther == <<"ninja", ":", " ", "done">>

LPatch == <<"running", " ", "apply_all_patches.py">>
LHook == <<"Hook", " ", "apply_all_patches.py", " ", "took", " ", "2", "s">>
LDeps == <<"Syncing", " ", "projects">>

BuildLines == {LRun, L10, L25, L30, LNeg, LOther}
LifeBuildLines == {L10, L30}
LifeSyncLines == {LPatch, LDeps}
SyncLines == {LDeps, LPatch, LHook}

----------------------------------------------------------------------------
(* String helpers of the line handlers *)

\* RegExp.test for a literal pattern: the pattern occurs somewhere in the line
Contains(line, pat) ==
  \E i \in 1..(Len(line) - Len(pat) + 1) :
     \A k \in 1..Len(pat) : line[i + k - 1] = pat[k]

\* RegExp.test for /a.*b/ with a and b single words
ContainsThen(line, a, b) ==
  \E i \in 1..Len(line) : \E j \in (i + 1)..Len(line) :
     line[i] = a /\ line[j] = b

\* RegExp.test for /a.*b.*c/ with a, b and c single words
ContainsThen3(line, a, b, c) ==
  \E i \in 1..Len(line) : \E j \in (i + 1)..Len(line) :
     \E k \in (j + 1)..Len(line) :
        line[i] = a /\ line[j] = b /\ line[k] = c

\* line.split("%")[0]
SplitPercentHead(line) ==
  IF \E i \in 1..Len(line) : line[i] = "%"
  THEN LET first == CHOOSE i \in 1..Len(line) :
                      /\ line[i] = "%"
                      /\ \A j \in 1..(i - 1) : line[j] # "%"
       IN SubSeq(line, 1, first - 1)
  ELSE line

RECURSIVE TrimLeft(_)
TrimLeft(s) == IF s # <<>> /\ Head(s) = " " THEN TrimLeft(Tail(s)) ELSE s

RECURSIVE TrimRight(_)
TrimRight(s) ==
  IF s # <<>> /\ s[Len(s)] = " " THEN TrimRight(SubSeq(s, 1, Len(s) - 1)) ELSE s

\* String.prototype.trim
Trim(s) == TrimRight(TrimLeft(s))

RECURSIVE DigitRun(_)
DigitRun(s) ==
  IF s # <<>> /\ IsDigit(Head(s)) THEN <<Head(s)>> \o DigitRun(Tail(s)) ELSE <<>>

RECURSIVE ToNumber(_)
ToNumber(ds) ==
  IF ds = <<>> THEN 0
  ELSE ToNumber(SubSeq(ds, 1, Len(ds) - 1)) * 10 + DigitVal(ds[Len(ds)])

HexDigits == <<"0", "1", "2", "3", "4", "5", "6", "7", "8", "9",
               "a", "b", "c", "d", "e", "f">>
HexCapitals == <<"0", "1", "2", "3", "4", "5", "6", "7", "8", "9",
                 "A", "B", "C", "D", "E", "F">>
IsHexDigit(t) == \E i \in 1..16 : HexDigits[i] = t \/ HexCapitals[i] = t
HexVal(t) == (CHOOSE i \in 1..16 : HexDigits[i] = t \/ HexCapitals[i] = t) - 1

RECURSIVE HexRun(_)
HexRun(s) ==
  IF s # <<>> /\ IsHexDigit(Head(s)) THEN <<Head(s)>> \o HexRun(Tail(s)) ELSE <<>>

RECURSIVE ToHexNumber(_)
ToHexNumber(ds) ==
  IF ds = <<>> THEN 0
  ELSE ToHexNumber(SubSeq(ds, 1, Len(ds) - 1)) * 16 + HexVal(ds[Len(ds)])

\* parseInt(s): leading white space, an optional sign, then either "0x" or
\* "0X" and the leading run of hexadecimal digits, or the leading run of
\* decimal digits; NaN when the run is empty; what follows is ignored
ParseInt(s) ==
  LET t == TrimLeft(s)
      neg == t # <<>> /\ Head(t) = "-"
      body == IF t # <<>> /\ Head(t) \in {"-", "+"} THEN Tail(t) ELSE t
      hex == Len(body) >= 2 /\ body[1] = "0" /\ body[2] \in {"x", "X"}
      run == IF hex THEN HexRun(SubSeq(body, 3, Len(body))) ELSE DigitRun(body)
      abs == IF hex THEN ToHexNumber(run) ELSE ToNumber(run)
  IN IF run = <<>> THEN [nan |-> TRUE, val |-> 0]
     ELSE [nan |-> FALSE, val |-> IF neg THEN 0 - abs ELSE abs]

\* parseInt(line.split("%")[0].trim())
BuildProgress(line) == ParseInt(Trim(SplitPercentHead(line)))

----------------------------------------------------------------------------
(* Messages and settlement *)

OperationName(v) ==
  IF v = "sync" THEN "Electron Build Tools - Syncing"
  ELSE "Electron Build Tools - Building"

\* the error message without error.message
ErrorMessageNoDetail(op, text) ==
  [kind |-> "error", op |-> op, code |-> NullCode, text |-> ""]

\* `'${operationName}' had an error occur: ${error.message}`
ErrorMessage(op, text) ==
  [kind |-> "error", op |-> op, code |-> NullCode, text |-> text]

\* `'${operationName}' failed with exit code ${exitCode}`
ExitMessage(op, code) ==
  [kind |-> "exit", op |-> op, code |-> code, text |-> ""]

\* a showErrorMessage call as the user sees it: the text, and the state the
\* operation was in when it was shown
Shown(msg) ==
  [kind |-> msg.kind, op |-> msg.op, code |-> msg.code, text |-> msg.text,
   when |-> outcome]

\* a settlement that does not look at the state: the last call wins
SettleLastWins(cur, new) == new

\* resolve() / reject() of a promise: only the first call settles it
Settle(cur, new) == IF cur = "Running" THEN new ELSE cur

\* the exit handler without its test of the exit code
ExitShowsUnlessKilled(code, k) == ~k

\* the exit handler with `exitCode !== 0` alone: null counts as a failure
ExitShowsNonZero(code, k) == ~k /\ code # 0

\* exit handler of the pipe and sync commands: exitCode && !killed && exitCode !== 0
ExitShowsFailure(code, k) == code # NullCode /\ ~k /\ code # 0

\* onDidEndTaskProcess of the relay command: exitCode && exitCode !== 0
TaskExitShowsFailure(code) == code # NullCode /\ code # 0

\* the messages of kind "exit" shown so far
ExitFailureShown == \E i \in 1..Len(messages) : messages[i].kind = "exit"

----------------------------------------------------------------------------
(* Line handlers: the progress.report payloads one line produces *)

Phase(msg) == [message |-> msg, hasInc |-> FALSE, increment |-> 0]
Step(msg, inc) == [message |-> msg, hasInc |-> TRUE, increment |-> inc]

\* the comparison as an inequality: a lower value is taken too
AdvancesOnChange(value, last) == value # last

\* buildProgress > lastBuildProgress
Advances(value, last) == value > last

\* a handler without the goma branch
GomaTestOff(v, line) == FALSE

\* /goma/ in the pipe command, /Running.*goma/ in the relay command
GomaTest(v, line) ==
  IF v = "pipe" THEN Contains(line, <<"goma">>)
  ELSE ContainsThen(line, "Running", "goma")

\* the rules as independent tests, none stopping the next
BuildReportsAllRules(v, line, last) ==
  (IF Contains(line, <<"Regenerating", " ", "ninja", " ", "files">>)
   THEN <<Step("Regenerating Ninja Files", 0)>> ELSE <<>>)
  \o (IF ~BuildProgress(line).nan /\ Advances(BuildProgress(line).val, last)
      THEN <<Step("Compiling", BuildProgress(line).val - last)>> ELSE <<>>)
  \o (IF GomaTest(v, line) THEN <<Phase("Starting Goma")>> ELSE <<>>)
  \o (IF ContainsThen(line, "Running", "ninja")
      THEN <<Phase("Starting")>> ELSE <<>>)

\* rl.on("line") of the build commands
BuildReports(v, line, last) ==
  IF Contains(line, <<"Regenerating", " ", "ninja", " ", "files">>)
  THEN <<Step("Regenerating Ninja Files", 0)>>
  ELSE LET p == BuildProgress(line) IN
       IF ~p.nan
       THEN IF Advances(p.val, last)
            THEN <<Step("Compiling", p.val - last)>>
            ELSE <<>>
       ELSE IF GomaTest(v, line) THEN <<Phase("Starting Goma")>>
            ELSE IF ContainsThen(line, "Running", "ninja")
                 THEN <<Phase("Starting")>>
                 ELSE <<>>

\* the line handler without `lastBuildProgress = buildProgress`
BuildBaselineStale(line, last) == last

\* lastBuildProgress after the line
BuildBaseline(line, last) ==
  IF Contains(line, <<"Regenerating", " ", "ninja", " ", "files">>) THEN last
  ELSE LET p == BuildProgress(line) IN
       IF ~p.nan /\ Advances(p.val, last) THEN p.val ELSE last

\* rl.on("line") of the sync command
SyncReports(line, initial) ==
  IF ContainsThen(line, "running", "apply_all_patches.py")
  THEN <<Phase("Applying Patches")>>
  ELSE IF ContainsThen3(line, "Hook", "apply_all_patches.py", "took")
       THEN <<Phase("Finishing Up")>>
       ELSE IF ~initial THEN <<Phase("Dependencies")>> ELSE <<>>

\* the sync line handler without `initialProgress = true`
SyncInitialUnset(line, initial) == initial

\* a handler that sets `initialProgress` on every line
SyncInitialAnyLine(line, initial) == TRUE

\* initialProgress after the line
SyncInitial(line, initial) ==
  IF ContainsThen(line, "running", "apply_all_patches.py") THEN initial
  ELSE IF ContainsThen3(line, "Hook", "apply_all_patches.py", "took")
       THEN initial
       ELSE TRUE

\* a report as the sink receives it: which line and connection it came from,
\* and whether the operation had already settled
TaggedAt(reports, c, n) ==
  [i \in 1..Len(reports) |->
     [message |-> reports[i].message, hasInc |-> reports[i].hasInc,
      increment |-> reports[i].increment, line |-> n,
      conn |-> c, late |-> outcome # "Running"]]

Tagged(reports, c) == TaggedAt(reports, c, Len(fed) + 1)

----------------------------------------------------------------------------
(* readline.createInterface({ input }): the stream's chunks are cut into  *)
(* lines at "\n"; what follows the last "\n" is kept for the next chunk.  *)

HasNewline(text) == \E i \in 1..Len(text) : text[i] = "\n"

FirstNewline(text) ==
  CHOOSE i \in 1..Len(text) :
     text[i] = "\n" /\ \A j \in 1..(i - 1) : text[j] # "\n"

\* the complete lines of the text, without their terminators
RECURSIVE FrameLines(_)
FrameLines(text) ==
  IF ~HasNewline(text) THEN <<>>
  ELSE <<SubSeq(text, 1, FirstNewline(text) - 1)>>
       \o FrameLines(SubSeq(text, FirstNewline(text) + 1, Len(text)))

\* the incomplete line at the end of the text
RECURSIVE FrameRest(_)
FrameRest(text) ==
  IF ~HasNewline(text) THEN text
  ELSE FrameRest(SubSeq(text, FirstNewline(text) + 1, Len(text)))

\* the build line handler run on each of the lines in turn
RECURSIVE FeedBuild(_, _, _, _, _)
FeedBuild(v, lines, evs, last, n) ==
  IF lines = <<>> THEN [events |-> evs, last |-> last]
  ELSE FeedBuild(v, Tail(lines),
                 evs \o TaggedAt(BuildReports(v, Head(lines), last), 0, n + 1),
                 BuildBaseline(Head(lines), last), n + 1)

----------------------------------------------------------------------------
(* Environment of the command *)

\* the value the build commands give NINJA_STATUS
NinjaStatus == "%p %f/%t "

DefaultEnv == [k \in {"PATH"} |-> "/usr/bin"]

\* environments of the extension host
Envs ==
  { DefaultEnv,
    [k \in {"PATH", "GOMA"} |-> IF k = "PATH" THEN "/usr/bin" ELSE "cache-only"],
    [k \in {"PATH", "NINJA_STATUS"} |->
        IF k = "PATH" THEN "/opt/depot_tools" ELSE "[%f/%t] "] }

\* an environment built anew: the caller's variables are dropped
BuildEnvOnlyStatus(pe) == [k \in {"NINJA_STATUS"} |-> NinjaStatus]

\* { ...process.env, NINJA_STATUS: "%p %f/%t " }
BuildEnv(pe) ==
  [k \in (DOMAIN pe) \cup {"NINJA_STATUS"} |->
     IF k = "NINJA_STATUS" THEN NinjaStatus ELSE pe[k]]

----------------------------------------------------------------------------
\* what a work function can end with, and the absence of an end
NoOutcome == [kind |-> "none", val |-> ""]
WorkOutcomes == {[kind |-> "return", val |-> "tests"],
                 [kind |-> "throw", val |-> "boom"]}

Init ==
  /\ variant \in Variants
  /\ phase = IF variant = "relay" THEN "starting" ELSE "running"
  /\ outcome = "Running"
  /\ attempts = 0
  /\ killed = FALSE
  /\ cancelSeen = FALSE
  /\ errSeen = FALSE
  /\ errText = ""
  /\ exitSeen = FALSE
  /\ exitCode = NullCode
  /\ taskEnded = FALSE
  /\ serverErr = "none"
  /\ messages = <<>>
  /\ events = <<>>
  /\ fed = <<>>
  /\ lastBuildProgress = 0
  /\ initialProgress = FALSE
  /\ kills = 0
  /\ transportOpen = TRUE
  /\ conns = 0
  /\ rejection = ""
  /\ cancelOrder = <<>>
  /\ buffer = <<>>
  /\ sent = <<>>
  /\ callerEnv \in Envs
  /\ env = IF variant = "sync" THEN callerEnv ELSE BuildEnv(callerEnv)
  /\ unheard = FALSE
  /\ globalBusy = FALSE
  /\ busyContext = FALSE
  /\ work = [c \in 1..MaxBusyCalls |->
               [pc |-> "idle", fn |-> NoOutcome, out |-> NoOutcome]]
  /\ invoked = <<>>
  /\ result = <<>>
  /\ testsPromise = [state |-> "pending", value |-> <<>>]
  /\ testsSeen = {}

Direct == variant \in {"pipe", "sync"}

\* buildOperation.on("error") / syncOperation.on("error")
ProcError(text) ==
  /\ Direct /\ ~errSeen
  /\ errSeen' = TRUE
  /\ errText' = text
  /\ messages' = Append(messages, Shown(ErrorMessage(OperationName(variant), text)))
  /\ outcome' = Settle(outcome, "Failed")
  /\ attempts' = attempts + 1
  /\ UNCHANGED <<variant, phase, killed, cancelSeen, exitSeen, exitCode,
                 taskEnded, serverErr, events, fed, lastBuildProgress,
                 initialProgress, kills, transportOpen, conns, rejection>>
  /\ UNCHANGED <<cancelOrder, buffer, sent, callerEnv, env, unheard, busyVars, testVars>>

\* buildOperation.on("exit") / syncOperation.on("exit")
ProcExit(code) ==
  /\ Direct /\ ~exitSeen
  /\ exitSeen' = TRUE
  /\ exitCode' = code
  /\ messages' = IF ExitShowsFailure(code, killed)
                 THEN Append(messages, Shown(ExitMessage(OperationName(variant), code)))
                 ELSE messages
  /\ outcome' = Settle(outcome,
                       IF ExitShowsFailure(code, killed) THEN "Failed"
                       ELSE "Succeeded")
  /\ attempts' = attempts + 1
  /\ UNCHANGED <<variant, phase, killed, cancelSeen, errSeen, errText, taskEnded,
                 serverErr, events, fed, lastBuildProgress, initialProgress,
                 kills, transportOpen, conns, rejection>>
  /\ UNCHANGED <<cancelOrder, buffer, sent, callerEnv, env, unheard, busyVars, testVars>>

\* token.onCancellationRequested of the pipe and sync commands
CancelDirect ==
  /\ Direct /\ ~cancelSeen
  /\ cancelSeen' = TRUE
  /\ killed' = TRUE
  /\ kills' = kills + 1
  /\ outcome' = Settle(outcome, "Canceled")
  /\ attempts' = attempts + 1
  /\ cancelOrder' = <<"mark", "kill", "settle">>
  /\ UNCHANGED <<variant, phase, errSeen, errText, exitSeen, exitCode, taskEnded,
                 serverErr, messages, events, fed, lastBuildProgress,
                 initialProgress, transportOpen, conns, rejection>>
  /\ UNCHANGED <<buffer, sent, callerEnv, env, unheard, busyVars, testVars>>

\* the child's stdout ends: the readline interface emits the text it holds
\* without a terminator as a last "line", then closes by itself
StdoutEnd ==
  /\ Direct /\ transportOpen
  /\ transportOpen' = FALSE
  /\ buffer' = <<>>
  /\ IF buffer = <<>>
     THEN UNCHANGED <<events, fed, lastBuildProgress, initialProgress>>
     ELSE /\ fed' = Append(fed, buffer)
          /\ IF variant = "sync"
             THEN /\ events' = events
                                 \o Tagged(SyncReports(buffer, initialProgress), 0)
                  /\ initialProgress' = SyncInitial(buffer, initialProgress)
                  /\ UNCHANGED lastBuildProgress
             ELSE /\ events' = FeedBuild(variant, <<buffer>>, events,
                                         lastBuildProgress, Len(fed)).events
                  /\ lastBuildProgress' = BuildBaseline(buffer, lastBuildProgress)
                  /\ UNCHANGED initialProgress
  /\ UNCHANGED <<variant, phase, outcome, attempts, killed, cancelSeen,
                 errSeen, errText, exitSeen, exitCode, taskEnded, serverErr,
                 messages, kills, conns, rejection>>
  /\ UNCHANGED <<cancelOrder, sent, callerEnv, env, unheard, busyVars, testVars>>

\* rl.on("line") of the pipe build command
LinePipe(line) ==
  /\ variant = "pipe" /\ transportOpen
  /\ events' = events \o Tagged(BuildReports(variant, line, lastBuildProgress), 0)
  /\ lastBuildProgress' = BuildBaseline(line, lastBuildProgress)
  /\ fed' = Append(fed, line)
  /\ UNCHANGED <<variant, phase, outcome, attempts, killed, cancelSeen,
                 errSeen, errText, exitSeen, exitCode, taskEnded, serverErr, messages,
                 initialProgress, kills, transportOpen, conns, rejection>>
  /\ UNCHANGED <<cancelOrder, buffer, sent, callerEnv, env, unheard, busyVars, testVars>>

\* a chunk without the part of a line received before it
ChunkPipeNoCarry(chunk) ==
  /\ variant = "pipe" /\ transportOpen
  /\ sent' = sent \o chunk
  /\ buffer' = FrameRest(chunk)
  /\ LET r == FeedBuild(variant, FrameLines(chunk), events,
                        lastBuildProgress, Len(fed))
     IN /\ events' = r.events
        /\ lastBuildProgress' = r.last
  /\ fed' = fed \o FrameLines(chunk)
  /\ UNCHANGED <<variant, phase, outcome, attempts, killed, cancelSeen,
                 errSeen, errText, exitSeen, exitCode, taskEnded, serverErr,
                 messages, initialProgress, kills, transportOpen, conns,
                 rejection, cancelOrder, callerEnv, env, unheard, busyVars, testVars>>

\* buildOperation.stdout delivers a chunk to the readline interface, which
\* emits "line" for every line the chunk completes
ChunkPipe(chunk) ==
  /\ variant = "pipe" /\ transportOpen
  /\ sent' = sent \o chunk
  /\ buffer' = FrameRest(buffer \o chunk)
  /\ LET r == FeedBuild(variant, FrameLines(buffer \o chunk), events,
                        lastBuildProgress, Len(fed))
     IN /\ events' = r.events
        /\ lastBuildProgress' = r.last
  /\ fed' = fed \o FrameLines(buffer \o chunk)
  /\ UNCHANGED <<variant, phase, outcome, attempts, killed, cancelSeen,
                 errSeen, errText, exitSeen, exitCode, taskEnded, serverErr,
                 messages, initialProgress, kills, transportOpen, conns,
                 rejection, cancelOrder, callerEnv, env, unheard, busyVars, testVars>>

\* rl.on("line") of the sync command
LineSync(line) ==
  /\ variant = "sync" /\ transportOpen
  /\ events' = events \o Tagged(SyncReports(line, initialProgress), 0)
  /\ initialProgress' = SyncInitial(line, initialProgress)
  /\ fed' = Append(fed, line)
  /\ UNCHANGED <<variant, phase, outcome, attempts, killed, cancelSeen,
                 errSeen, errText, exitSeen, exitCode, taskEnded, serverErr, messages,
                 lastBuildProgress, kills, transportOpen, conns, rejection>>
  /\ UNCHANGED <<cancelOrder, buffer, sent, callerEnv, env, unheard, busyVars, testVars>>

Relay == variant = "relay"

\* await vscode.tasks.executeTask(task) returns: the settlement promise is
\* created and the server-error, task and cancellation listeners registered
StartTask ==
  /\ Relay /\ phase = "starting"
  /\ phase' = "running"
  /\ UNCHANGED <<variant, outcome, attempts, killed, cancelSeen, errSeen, errText,
                 exitSeen, exitCode, taskEnded, serverErr, messages, events,
                 fed, lastBuildProgress, initialProgress, kills, transportOpen, conns, rejection>>
  /\ UNCHANGED <<cancelOrder, buffer, sent, callerEnv, env, unheard, busyVars, testVars>>

\* await vscode.tasks.executeTask(task) throws: the async callback given to
\* withProgress rejects with that error, no listener is registered (the
\* task was not started, so nothing has connected to the socket)
StartTaskFails(text) ==
  /\ Relay /\ phase = "starting" /\ conns = 0
  /\ phase' = "spawnFailed"
  /\ outcome' = Settle(outcome, "Failed")
  /\ rejection' = text
  /\ attempts' = attempts + 1
  /\ UNCHANGED <<variant, killed, cancelSeen, errSeen, errText, exitSeen, exitCode,
                 taskEnded, serverErr, messages, events, fed,
                 lastBuildProgress, initialProgress, kills, transportOpen, conns>>
  /\ UNCHANGED <<cancelOrder, buffer, sent, callerEnv, env, unheard, busyVars, testVars>>

ServerErrorKinds == {"listen", "accept"}

\* socketServer emits "error": listen(socketName) has failed, which is
\* reported on the next tick, while executeTask is still awaited, and leaves
\* the server not listening; or accepting a connection has failed, at any
\* time, which leaves it listening.  The listener
\* reject("Socket server error") exists only once executeTask has returned;
\* before that the event has no listener and is thrown as an uncaught error.
\* A rejection runs the .finally reaction: taskExecution.terminate().
\* Nothing closes the server.  One error of the server is followed per
\* operation.
ServerError(kind) ==
  /\ Relay /\ serverErr = "none" /\ transportOpen
  /\ kind = "listen" => phase = "starting" /\ conns = 0
  /\ transportOpen' = (kind # "listen")
  /\ IF phase = "running"
     THEN /\ serverErr' = "handled"
          /\ outcome' = Settle(outcome, "TransportError")
          /\ rejection' = IF outcome = "Running" THEN "Socket server error"
                          ELSE rejection
          /\ attempts' = attempts + 1
          /\ kills' = IF outcome = "Running" THEN kills + 1 ELSE kills
     ELSE /\ serverErr' = "uncaught"
          /\ UNCHANGED <<outcome, rejection, attempts, kills>>
  /\ UNCHANGED <<variant, phase, killed, cancelSeen, errSeen, errText, exitSeen,
                 exitCode, taskEnded, messages, events, fed,
                 lastBuildProgress, initialProgress, conns>>
  /\ UNCHANGED <<cancelOrder, buffer, sent, callerEnv, env, unheard, busyVars, testVars>>

\* the connection listener registered only once executeTask has returned
ConnectionHandledAfterStart(ph) == ph = "running"

\* socketServer.on("connection") is registered before executeTask is
\* called: the listener exists while the call is awaited and afterwards
ConnectionHandled(ph) == ph \in {"starting", "running"}

\* the forwarding process connects to the socket, which it can do as soon
\* as the task is started, before executeTask has returned;
\* socketServer.on("connection"): a line reader is created on the socket
Connect ==
  /\ Relay /\ phase \in {"starting", "running"}
  /\ transportOpen /\ conns < MaxConns
  /\ IF ConnectionHandled(phase)
     THEN conns' = conns + 1 /\ UNCHANGED unheard
     ELSE unheard' = TRUE /\ UNCHANGED conns
  /\ UNCHANGED <<variant, phase, outcome, attempts, killed, cancelSeen,
                 errSeen, errText, exitSeen, exitCode, taskEnded, serverErr, messages,
                 events, fed, lastBuildProgress, initialProgress, kills,
                 transportOpen, rejection>>
  /\ UNCHANGED <<cancelOrder, buffer, sent, callerEnv, env, busyVars, testVars>>

\* rl.on("line") of the relay build command, on connection c
LineRelay(c, line) ==
  /\ Relay /\ c \in 1..conns
  /\ events' = events \o Tagged(BuildReports(variant, line, lastBuildProgress), c)
  /\ lastBuildProgress' = BuildBaseline(line, lastBuildProgress)
  /\ fed' = Append(fed, line)
  /\ UNCHANGED <<variant, phase, outcome, attempts, killed, cancelSeen,
                 errSeen, errText, exitSeen, exitCode, taskEnded, serverErr, messages,
                 initialProgress, kills, transportOpen, conns,
                 rejection>>
  /\ UNCHANGED <<cancelOrder, buffer, sent, callerEnv, env, unheard, busyVars, testVars>>

\* vscode.tasks.onDidEndTaskProcess
TaskProcessEnd(code) ==
  /\ Relay /\ phase = "running" /\ ~exitSeen
  /\ exitSeen' = TRUE
  /\ exitCode' = code
  /\ messages' = IF TaskExitShowsFailure(code)
                 THEN Append(messages, Shown(ExitMessage(OperationName(variant), code)))
                 ELSE messages
  /\ UNCHANGED <<variant, phase, outcome, attempts, killed, cancelSeen,
                 errSeen, errText, taskEnded, serverErr, events, fed,
                 lastBuildProgress, initialProgress, kills, transportOpen, conns, rejection>>
  /\ UNCHANGED <<cancelOrder, buffer, sent, callerEnv, env, unheard, busyVars, testVars>>

\* vscode.tasks.onDidEndTask: resolve(), then .finally terminates
TaskEnd ==
  /\ Relay /\ phase = "running" /\ ~taskEnded
  /\ taskEnded' = TRUE
  /\ outcome' = Settle(outcome,
                       IF ExitFailureShown THEN "Failed" ELSE "Succeeded")
  /\ attempts' = attempts + 1
  /\ kills' = IF outcome = "Running" THEN kills + 1 ELSE kills
  /\ UNCHANGED <<variant, phase, killed, cancelSeen, errSeen, errText, exitSeen,
                 exitCode, serverErr, messages, events, fed,
                 lastBuildProgress, initialProgress, transportOpen,
                 conns, rejection>>
  /\ UNCHANGED <<cancelOrder, buffer, sent, callerEnv, env, unheard, busyVars, testVars>>

\* token.onCancellationRequested of the relay command: resolve();
\* taskExecution.terminate(); and, if this call settled the promise, the
\* .finally reaction calls taskExecution.terminate() again
CancelRelay ==
  /\ Relay /\ phase = "running" /\ ~cancelSeen
  /\ cancelSeen' = TRUE
  /\ outcome' = Settle(outcome, "Canceled")
  /\ attempts' = attempts + 1
  /\ kills' = IF outcome = "Running" THEN kills + 2 ELSE kills + 1
  /\ cancelOrder' = IF outcome = "Running" THEN <<"settle", "kill", "kill">>
                    ELSE <<"settle", "kill">>
  /\ UNCHANGED <<variant, phase, killed, errSeen, errText, exitSeen, exitCode,
                 taskEnded, serverErr, messages, events, fed,
                 lastBuildProgress, initialProgress, transportOpen,
                 conns, rejection>>
  /\ UNCHANGED <<buffer, sent, callerEnv, env, unheard, busyVars, testVars>>

----------------------------------------------------------------------------
Next ==
  \/ \E t \in ErrTexts : ProcError(t)
  \/ \E c \in ExitCodes : ProcExit(c)
  \/ CancelDirect
  \/ StdoutEnd
  \/ \E l \in LifeBuildLines : Len(fed) < MaxLines /\ LinePipe(l)
  \/ \E l \in LifeSyncLines : Len(fed) < MaxLines /\ LineSync(l)
  \/ StartTask
  \/ \E t \in ErrTexts : StartTaskFails(t)
  \/ \E k \in ServerErrorKinds : ServerError(k)
  \/ Connect
  \/ \E c \in 1..MaxConns : \E l \in LifeBuildLines :
        Len(fed) < MaxLines /\ LineRelay(c, l)
  \/ \E c \in ExitCodes : TaskProcessEnd(c)
  \/ TaskEnd
  \/ CancelRelay

Spec == Init /\ [][Next]_vars

(* The build commands with the whole set of build lines and the events of *)
(* an uninterrupted run: output lines, the end of the process and the end  *)
(* of the task.                                                            *)
InitParse == Init /\ variant \in {"pipe", "relay"} /\ callerEnv = DefaultEnv

NextParse ==
  \/ \E c \in ParseExitCodes : ProcExit(c)
  \/ StdoutEnd
  \/ \E l \in BuildLines : Len(fed) < MaxParseLines /\ LinePipe(l)
  \/ StartTask
  \/ conns < MaxParseConns /\ Connect
  \/ \E c \in 1..MaxParseConns : \E l \in BuildLines :
        Len(fed) < MaxParseLines /\ LineRelay(c, l)
  \/ \E c \in ParseExitCodes : TaskProcessEnd(c)
  \/ TaskEnd

SpecParse == InitParse /\ [][NextParse]_vars

----------------------------------------------------------------------------
(* Helpers of the properties *)

Outcomes == {"Running", "Succeeded", "Failed", "Canceled", "TransportError"}

LastOf(s) == s[Len(s)]

RECURSIVE SumIncrements(_)
SumIncrements(evs) ==
  IF evs = <<>> THEN 0
  ELSE SumIncrements(SubSeq(evs, 1, Len(evs) - 1))
       + (IF LastOf(evs).hasInc THEN LastOf(evs).increment ELSE 0)

\* what the sink was told: the payloads without the bookkeeping
Payloads(evs) ==
  [i \in 1..Len(evs) |->
     [message |-> evs[i].message, hasInc |-> evs[i].hasInc,
      increment |-> evs[i].increment]]

----------------------------------------------------------------------------
(* C1: in every variant and for every order of exit, error, transport     *)
(* error and cancellation, the operation is settled exactly once: the     *)
(* outcome is always one of Running, Succeeded, Failed, Canceled and      *)
(* TransportError, and once it is not Running no later event changes it.  *)
C1_SettledOnce ==
  /\ [](outcome \in Outcomes)
  /\ [][outcome # "Running" => outcome' = outcome]_vars

\* a settled operation that a second settling signal has reached
C1_Witness == outcome # "Running" /\ attempts >= 2

(* C2: a cancellation that settled the operation is never followed by a   *)
(* failure message for an exit code observed afterwards.                  *)
C2_CancelSuppressesExit ==
  \A i \in 1..Len(messages) :
     ~(messages[i].kind = "exit" /\ messages[i].when = "Canceled")

(* C3: a process exit observed with no prior cancellation surfaces a      *)
(* failure message if and only if the exit code is non-zero, the message  *)
(* carries that code and the operation name, and exit code 0 surfaces no  *)
(* message and settles a Running operation as Succeeded (at the exit      *)
(* event in the direct variants, at the task end in the relay variant).   *)
C3_ExitMessage ==
  [][/\ (~exitSeen /\ exitSeen' /\ ~cancelSeen) =>
          /\ exitCode' \in {0, NullCode} => messages' = messages
          /\ exitCode' \notin {0, NullCode} =>
                /\ Len(messages') = Len(messages) + 1
                /\ SubSeq(messages', 1, Len(messages)) = messages
                /\ LastOf(messages').kind = "exit"
                /\ LastOf(messages').code = exitCode'
                /\ LastOf(messages').op = OperationName(variant)
          /\ (Direct /\ exitCode' = 0 /\ outcome = "Running") =>
                outcome' = "Succeeded"
     /\ (Relay /\ ~taskEnded /\ taskEnded' /\ ~cancelSeen /\ exitSeen
         /\ exitCode = 0 /\ outcome = "Running") => outcome' = "Succeeded"
    ]_vars

\* a non-zero exit, not cancelled, has surfaced its one message
C3_Witness ==
  /\ exitSeen /\ ~cancelSeen /\ exitCode = 2
  /\ Len(messages) = 1 /\ messages[1].kind = "exit" /\ messages[1].code = 2
  /\ outcome = "Failed"

(* C4: a process error event on a Running operation settles it as Failed  *)
(* and surfaces exactly one message, which carries the operation name and *)
(* the text of the error.                                                 *)
C4_ProcessError ==
  [][(~errSeen /\ errSeen' /\ outcome = "Running") =>
        /\ outcome' = "Failed"
        /\ Len(messages') = Len(messages) + 1
        /\ SubSeq(messages', 1, Len(messages)) = messages
        /\ LastOf(messages').kind = "error"
        /\ LastOf(messages').op = OperationName(variant)
        /\ LastOf(messages').text = errText'
    ]_vars

\* a process error has settled the operation
C4_Witness ==
  /\ errSeen /\ errText = "spawn ENOENT" /\ outcome = "Failed"
  /\ Len(messages) = 1 /\ messages[1].when = "Running"

(* C5: in the relay variant a server error, whenever it occurs after the  *)
(* server is created, settles the operation as TransportError and         *)
(* surfaces a dedicated message that names the operation.                 *)
C5_ServerErrorSettles ==
  serverErr # "none" =>
     /\ outcome = "TransportError"
     /\ \E i \in 1..Len(messages) :
           /\ messages[i].kind = "transport"
           /\ messages[i].op = OperationName(variant)

(* C6: no progress event is reported after the operation has settled.     *)
C6_NoLateProgress == \A i \in 1..Len(events) : ~events[i].late

(* C7: once the operation has settled, on whichever path, its transport   *)
(* handle (socket server, stdout line reader) has been released.          *)
C7_TransportReleased == outcome # "Running" => ~transportOpen

(* C8: a process exit and a cancellation, in either order, lead to        *)
(* exactly one process-termination invocation.                            *)
C8_OneCleanup == (cancelSeen /\ exitSeen) => kills = 1

(* C9: the baseline never decreases, no reported increment is negative,   *)
(* and the increments reported so far sum to the baseline.                *)
C9_Baseline ==
  /\ [](/\ lastBuildProgress >= 0
        /\ \A i \in 1..Len(events) :
              events[i].hasInc => events[i].increment >= 0
        /\ SumIncrements(events) = lastBuildProgress)
  /\ [][lastBuildProgress' >= lastBuildProgress]_vars

\* a lower percent value has arrived after a higher one, and a negative one
C9_Witness ==
  /\ lastBuildProgress = 30
  /\ \E i, j, k \in 1..Len(fed) :
        i < j /\ j < k /\ fed[i] = L30 /\ fed[j] = L10 /\ fed[k] = LNeg

(* C10: the events reported for a build are the translations of its lines *)
(* in line order - at most one event per line, each carrying what its     *)
(* line says - and the lines "Running ninja...", "10% 5/50", "25% 12/50", *)
(* "30% 15/50" followed by exit code 0 give Starting, Compiling +10,      *)
(* Compiling +15, Compiling +5, a cumulative percentage of 30 and the     *)
(* terminal state Succeeded.                                              *)
C10_EndToEnd ==
  /\ \A i \in 1..Len(events) :
        /\ events[i].line \in 1..Len(fed)
        /\ i > 1 => events[i - 1].line < events[i].line
        /\ events[i].message = "Compiling" =>
              /\ ~BuildProgress(fed[events[i].line]).nan
              /\ BuildProgress(fed[events[i].line]).val
                    = SumIncrements(SubSeq(events, 1, i))
        /\ events[i].message = "Starting" =>
              ContainsThen(fed[events[i].line], "Running", "ninja")
  /\ (/\ fed = <<LRun, L10, L25, L30>>
      /\ exitSeen /\ exitCode = 0 /\ outcome # "Running") =>
        /\ Payloads(events) =
              << [message |-> "Starting", hasInc |-> FALSE, increment |-> 0],
                 [message |-> "Compiling", hasInc |-> TRUE, increment |-> 10],
                 [message |-> "Compiling", hasInc |-> TRUE, increment |-> 15],
                 [message |-> "Compiling", hasInc |-> TRUE, increment |-> 5] >>
        /\ SumIncrements(events) = 30
        /\ lastBuildProgress = 30
        /\ outcome = "Succeeded"

\* the four lines were fed, in order, before the exit with code 0
C10_Witness ==
  /\ fed = <<LRun, L10, L25, L30>>
  /\ exitSeen /\ exitCode = 0 /\ outcome = "Succeeded"
  /\ Len(events) = 4 /\ \A i \in 1..4 : ~events[i].late

----------------------------------------------------------------------------
(* The sync command fed its output lines, nothing else happening *)
InitSync == Init /\ variant = "sync" /\ callerEnv = DefaultEnv

NextSync == \E l \in SyncLines : Len(fed) < MaxSyncLines /\ LineSync(l)

SpecSync == InitSync /\ [][NextSync]_vars

\* the line matches neither patch-application marker
Unmatched(line) ==
  /\ ~ContainsThen(line, "running", "apply_all_patches.py")
  /\ ~ContainsThen3(line, "Hook", "apply_all_patches.py", "took")

TenUnrecognizedThenPatch == [i \in 1..11 |-> IF i <= 10 THEN LDeps ELSE LPatch]

(* C11: in a sync operation "Dependencies" is reported at most once, for  *)
(* the first line that matches neither patch-application marker, never    *)
(* for a later one; ten unrecognized lines followed by a patch marker     *)
(* give exactly "Dependencies" then "Applying Patches".                   *)
C11_DependenciesOnce ==
  LET deps == {i \in 1..Len(events) : events[i].message = "Dependencies"}
      unmatched == {n \in 1..Len(fed) : Unmatched(fed[n])}
  IN /\ Cardinality(deps) <= 1
     /\ (unmatched = {}) <=> (deps = {})
     /\ \A i \in deps : \A n \in unmatched : events[i].line <= n
     /\ \A i \in deps : events[i].line \in unmatched
     /\ fed = TenUnrecognizedThenPatch =>
           Payloads(events) =
              << [message |-> "Dependencies", hasInc |-> FALSE, increment |-> 0],
                 [message |-> "Applying Patches", hasInc |-> FALSE,
                  increment |-> 0] >>

\* the ten unrecognized lines and the patch marker have been fed
C11_Witness == fed = TenUnrecognizedThenPatch /\ Len(events) = 2

----------------------------------------------------------------------------
(* The pipe build command fed its output in chunks cut at any place *)

ExampleText == <<"a", "b", "c", "\n", "d", "e", "f", "\n">>
ChunkAlphabet == {"1", "%", "\n"}

\* chunks of one to three characters
FreeChunks ==
  UNION {[1..n -> ChunkAlphabet] : n \in 1..3}

IsPrefix(a, b) == Len(a) <= Len(b) /\ SubSeq(b, 1, Len(a)) = a

InitFrame == Init /\ variant = "pipe" /\ callerEnv = DefaultEnv

NextFrame ==
  \/ \E c \in FreeChunks : Len(sent) + Len(c) <= MaxSent /\ ChunkPipe(c)
  \/ \E k \in 1..Len(ExampleText) :
        /\ IsPrefix(sent, ExampleText) /\ Len(sent) + k <= Len(ExampleText)
        /\ ChunkPipe(SubSeq(ExampleText, Len(sent) + 1, Len(sent) + k))
  \/ StdoutEnd

SpecFrame == InitFrame /\ [][NextFrame]_vars

\* the lines, each with its terminator, one after the other
RECURSIVE Joined(_)
Joined(lines) ==
  IF lines = <<>> THEN <<>>
  ELSE Head(lines) \o <<"\n">> \o Joined(Tail(lines))

(* C12: whatever the chunk boundaries, the lines delivered followed by    *)
(* the buffered fragment are exactly the characters received - nothing    *)
(* lost, nothing duplicated, no line holding a line break - the fragment  *)
(* left at the end of the output is delivered as the last line, and       *)
(* "abc\ndef\n" gives exactly "abc" then "def".                           *)
C12_Framing ==
  /\ transportOpen => Joined(fed) \o buffer = sent
  /\ ~transportOpen =>
        /\ buffer = <<>>
        /\ Joined(fed) = IF sent = <<>> \/ LastOf(sent) = "\n" THEN sent
                         ELSE sent \o <<"\n">>
  /\ ~HasNewline(buffer)
  /\ \A i \in 1..Len(fed) : ~HasNewline(fed[i])
  /\ sent = ExampleText =>
        fed = << <<"a", "b", "c">>, <<"d", "e", "f">> >> /\ buffer = <<>>

\* "abc\nde" has arrived: one line delivered, a fragment of the next kept
C12_Witness ==
  /\ sent = SubSeq(ExampleText, 1, 6)
  /\ fed = << <<"a", "b", "c">> >> /\ buffer = <<"d", "e">>

----------------------------------------------------------------------------
(* C13: a cancellation request that arrives when the operation has        *)
(* already settled is a no-op: no process kill is issued, no operation    *)
(* state changes and nothing is surfaced.                                 *)
C13_CancelIdempotent ==
  [][(outcome # "Running" /\ ~cancelSeen /\ cancelSeen') =>
        /\ kills' = kills
        /\ killed' = killed
        /\ outcome' = outcome
        /\ messages' = messages]_vars

\* the steps of the cancellation handler that come before the first
\* occurrence of a step
Before(order, step) ==
  {order[j] : j \in {i \in 1..Len(order) :
                        \A k \in 1..i : order[k] # step}}

(* C14: a cancellation of a Running operation first marks it              *)
(* user-canceled, before the process-tree termination is issued and       *)
(* before the settlement is performed; the operation is then Canceled     *)
(* and the termination has been issued.                                   *)
C14_CancelOrder ==
  (cancelSeen /\ outcome = "Canceled") =>
     /\ \E i \in 1..Len(cancelOrder) : cancelOrder[i] = "mark"
     /\ "kill" \notin Before(cancelOrder, "mark")
     /\ "settle" \notin Before(cancelOrder, "mark")
     /\ kills >= 1

(* C16: the environment given to a build contains every variable of the   *)
(* caller's environment with its value unchanged, except NINJA_STATUS,    *)
(* which is set to the parseable format; nothing is dropped or added.     *)
C16_EnvPreserved ==
  variant # "sync" =>
     /\ DOMAIN env = (DOMAIN callerEnv) \cup {"NINJA_STATUS"}
     /\ \A k \in (DOMAIN callerEnv) \ {"NINJA_STATUS"} : env[k] = callerEnv[k]
     /\ env["NINJA_STATUS"] = NinjaStatus

\* a build whose caller had its own status format has run to its exit
C16_Witness ==
  /\ variant # "sync" /\ exitSeen
  /\ "NINJA_STATUS" \in DOMAIN callerEnv
  /\ callerEnv["NINJA_STATUS"] # NinjaStatus
  /\ env["PATH"] = callerEnv["PATH"]
  /\ env["NINJA_STATUS"] = NinjaStatus

----------------------------------------------------------------------------
(* The same commands with the deliveries the platform guarantees: the     *)
(* awaited executeTask call returns or throws, and the end of the task is *)
(* announced once its process has ended.  Nothing makes the process end,  *)
(* the server fail or the user cancel.                                    *)
Delivery ==
  /\ WF_vars(StartTask \/ \E t \in ErrTexts : StartTaskFails(t))
  /\ WF_vars(exitSeen /\ TaskEnd)

SpecLive == Init /\ [][Next]_vars /\ Delivery

(* C15: once the process has exited, a process error or a transport error *)
(* has been reported or a cancellation has been requested, the operation  *)
(* eventually settles; it does not stay Running forever.                  *)
C15_EventuallySettles ==
  (exitSeen \/ errSeen \/ cancelSeen \/ serverErr # "none")
     ~> (outcome # "Running")

----------------------------------------------------------------------------
(* The build commands fed the lines that tell the rules of the line       *)
(* handler apart: percent values going up and down, a number without a    *)
(* percent sign, and the regenerating marker in two spellings and after a *)
(* percent value.                                                         *)

L50 == <<"5", "0", "%", " ", "5", "/", "1", "0">>
L30of10 == <<"3", "0", "%", " ", "3", "/", "1", "0">>
L70 == <<"7", "0", "%", " ", "7", "/", "1", "0">>
LWarn == <<"2", " ", "warnings", " ", "generated.">>
LRegen == <<"Regenerating", " ", "ninja", " ", "files">>
LRegenLower == <<"regenerating", " ", "ninja", " ", "files">>
LRegenPct ==
  <<"1", "0", "%", " ", "Regenerating", " ", "ninja", " ", "files">>

RuleLines == {L50, L30of10, L70, LWarn, LRegen, LRegenLower, LRegenPct}

InitRules == Init /\ variant \in {"pipe", "relay"} /\ callerEnv = DefaultEnv

NextRules ==
  \/ \E l \in RuleLines : Len(fed) < MaxRuleLines /\ LinePipe(l)
  \/ StartTask
  \/ conns < MaxParseConns /\ Connect
  \/ \E c \in 1..MaxParseConns : \E l \in RuleLines :
        Len(fed) < MaxRuleLines /\ LineRelay(c, l)

SpecRules == InitRules /\ [][NextRules]_vars

\* the line begins with a number directly followed by a percent sign
HasPercentValue(line) ==
  /\ DigitRun(line) # <<>>
  /\ Len(line) > Len(DigitRun(line))
  /\ line[Len(DigitRun(line)) + 1] = "%"

\* the number in front of the percent sign
PercentValue(line) == ToNumber(DigitRun(line))

LowerWord(w) ==
  IF w = "Regenerating" THEN "regenerating"
  ELSE IF w = "Running" THEN "running"
  ELSE IF w = "Hook" THEN "hook"
  ELSE w

\* the line with its capitals lowered
Lower(line) == [i \in 1..Len(line) |-> LowerWord(line[i])]

\* the regenerating marker, in any letter case
RegeneratingAnyCase(line) ==
  Contains(Lower(line), <<"regenerating", " ", "ninja", " ", "files">>)

\* the step is the line handler called with a line carrying a percent value
\* (and not the regenerating marker)
PercentStep ==
  /\ fed' # fed
  /\ HasPercentValue(LastOf(fed'))
  /\ ~RegeneratingAnyCase(LastOf(fed'))

(* C17: a build line whose percent value is above the baseline reports    *)
(* exactly one event, "Compiling" with increment value minus baseline,    *)
(* and the baseline becomes that value.                                   *)
C17_PercentAdvances ==
  [][(PercentStep /\ PercentValue(LastOf(fed')) > lastBuildProgress) =>
        /\ Len(events') = Len(events) + 1
        /\ SubSeq(events', 1, Len(events)) = events
        /\ Payloads(events')[Len(events')] =
              Step("Compiling",
                   PercentValue(LastOf(fed')) - lastBuildProgress)
        /\ lastBuildProgress' = PercentValue(LastOf(fed'))]_vars

\* 50 then 70: the second line advanced the baseline from 50 by 20
C17_Witness ==
  /\ fed = <<L50, L70>> /\ lastBuildProgress = 70
  /\ Payloads(events) = <<Step("Compiling", 50), Step("Compiling", 20)>>

(* C18: a build line whose percent value is at most the baseline reports  *)
(* nothing and leaves the baseline unchanged; 50, then 30, then 70 gives  *)
(* exactly two events, with increments 50 and 20.                         *)
C18_NoRegression ==
  [][/\ (PercentStep /\ PercentValue(LastOf(fed')) <= lastBuildProgress) =>
           (events' = events /\ lastBuildProgress' = lastBuildProgress)
     /\ (fed' = <<L50, L30of10, L70>>) =>
           Payloads(events') =
              <<Step("Compiling", 50), Step("Compiling", 20)>>]_vars

\* 50, 30, 70 have been fed and the 30 was passed over
C18_Witness ==
  /\ fed = <<L50, L30of10, L70>>
  /\ Len(events) = 2 /\ events[1].line = 1 /\ events[2].line = 3
  /\ lastBuildProgress = 70

(* C19: "Compiling" is reported only for a line that begins with a number *)
(* directly followed by a percent sign, and only such a line changes the  *)
(* baseline.                                                              *)
C19_PercentSignNeeded ==
  /\ \A i \in 1..Len(events) :
        events[i].message = "Compiling" =>
           HasPercentValue(fed[events[i].line])
  /\ (\A n \in 1..Len(fed) : ~HasPercentValue(fed[n])) =>
        lastBuildProgress = 0

(* C20: a build line with the regenerating marker, in any letter case and *)
(* even after a percent value, reports "Regenerating Ninja Files" with    *)
(* increment 0 and nothing else, and leaves the baseline unchanged.       *)
C20_RegeneratingAnyCase ==
  \A n \in 1..Len(fed) :
     RegeneratingAnyCase(fed[n]) =>
        /\ \E i \in 1..Len(events) :
              /\ events[i].line = n
              /\ Payloads(events)[i] = Step("Regenerating Ninja Files", 0)
        /\ \A i \in 1..Len(events) :
              events[i].line = n => events[i].message # "Compiling"

----------------------------------------------------------------------------
(* The three commands fed the lines that carry the phase markers, alone,  *)
(* together and after a number, a line matching nothing and a percent     *)
(* value above 100; the direct commands may also see their process exit.  *)

LGoma == <<"Running", " ", "goma", "_ctl.py">>
LGomaNinja == <<"Running", " ", "ninja", " ", "with", " ", "goma">>
LGomaOnly == <<"goma", " ", "started">>
LNumGoma == <<"3", " ", "Running", " ", "goma">>
L150 == <<"1", "5", "0", "%", " ", "3", "/", "2">>
LHookRunning ==
  <<"Hook", " ", "running", " ", "apply_all_patches.py", " ", "took">>

\* "0x" is the prefix of a hexadecimal number for parseInt: a number when
\* a hexadecimal digit follows it, and otherwise not a number
LHexGoma == <<"0", "x", " ", "Running", " ", "goma">>
LHex16 == <<"0", "x", "1", "0", "%", " ", "1", "/", "2">>

MarkLines ==
  {LGoma, LGomaNinja, LGomaOnly, LNumGoma, LRun, LOther, L50, L150,
   LHexGoma, LHex16}
SyncMarkLines == {LDeps, LPatch, LHook, LHookRunning}

InitMarks == Init /\ callerEnv = DefaultEnv

NextMarks ==
  \/ \E l \in MarkLines : Len(fed) < MaxMarkLines /\ LinePipe(l)
  \/ \E l \in SyncMarkLines : Len(fed) < MaxMarkLines /\ LineSync(l)
  \/ \E c \in ParseExitCodes : ProcExit(c)
  \/ StartTask
  \/ conns < MaxParseConns /\ Connect
  \/ \E c \in 1..MaxParseConns : \E l \in MarkLines :
        Len(fed) < MaxMarkLines /\ LineRelay(c, l)

SpecMarks == InitMarks /\ [][NextMarks]_vars

\* no part of the line is a digit
NoNumber(line) == \A i \in 1..Len(line) : ~IsDigit(line[i])

\* the goma marker of the variant: the word "goma", in the relay command
\* after the word "Running"
GomaMarker(v, line) ==
  IF v = "pipe" THEN \E i \in 1..Len(line) : line[i] = "goma"
  ELSE \E i, j \in 1..Len(line) :
          i < j /\ line[i] = "Running" /\ line[j] = "goma"

\* the ninja marker: "Running" and later "ninja"
NinjaMarker(line) ==
  \E i, j \in 1..Len(line) : i < j /\ line[i] = "Running" /\ line[j] = "ninja"

\* the step is a build line handler called with a line
BuildLineStep == variant # "sync" /\ fed' # fed

\* what the step has reported
NewPayloads == SubSeq(Payloads(events'), Len(events) + 1, Len(events'))

\* the line begins with a number: digits, which are not the bare prefix
\* "0x" of a hexadecimal number without a digit after it
LeadingNumber(line) ==
  /\ DigitRun(line) # <<>>
  /\ (Len(line) >= 2 /\ line[1] = "0" /\ line[2] \in {"x", "X"}) =>
        (Len(line) >= 3 /\ IsHexDigit(line[3]))

(* C21: a build line without a number reports "Starting Goma" if it has   *)
(* the goma marker and otherwise "Starting" if it has the ninja marker,   *)
(* both without an increment, and a line that begins with a number        *)
(* reports neither.                                                       *)
C21_StartingPhases ==
  [][BuildLineStep =>
       LET line == LastOf(fed') IN
       /\ (NoNumber(line) /\ ~RegeneratingAnyCase(line)
           /\ GomaMarker(variant, line)) =>
             NewPayloads = <<Phase("Starting Goma")>>
       /\ (NoNumber(line) /\ ~RegeneratingAnyCase(line)
           /\ ~GomaMarker(variant, line) /\ NinjaMarker(line)) =>
             NewPayloads = <<Phase("Starting")>>
       /\ LeadingNumber(line) =>
             \A i \in 1..Len(NewPayloads) :
                NewPayloads[i].message \notin {"Starting Goma", "Starting"}
       /\ \A i \in 1..Len(NewPayloads) :
             NewPayloads[i].message \in {"Starting Goma", "Starting"} =>
                ~NewPayloads[i].hasInc /\ lastBuildProgress' = lastBuildProgress
    ]_vars

\* a line with both markers reported Starting Goma, one with the ninja
\* marker Starting, one with a number before the goma marker neither
C21_Witness ==
  /\ variant = "relay" /\ fed = <<LGomaNinja, LRun, LNumGoma>>
  /\ Len(events) = 3
  /\ events[1].message = "Starting Goma" /\ events[2].message = "Starting"
  /\ events[3].message = "Compiling"

\* no rule of the build line handler applies to the line
NoRule(v, line) ==
  /\ ~RegeneratingAnyCase(line)
  /\ NoNumber(line)
  /\ ~GomaMarker(v, line)
  /\ ~NinjaMarker(line)

(* C22: a build line that matches no rule reports nothing, leaves the     *)
(* baseline and the outcome as they were, and every line reports at most  *)
(* one event, after the events already reported.                          *)
C22_NoMatchNoEvent ==
  [][BuildLineStep =>
       /\ Len(events') <= Len(events) + 1
       /\ SubSeq(events', 1, Len(events)) = events
       /\ NoRule(variant, LastOf(fed')) =>
             /\ events' = events
             /\ lastBuildProgress' = lastBuildProgress
             /\ outcome' = outcome
    ]_vars

\* a line matching nothing came between two lines that reported
C22_Witness ==
  /\ variant = "pipe" /\ fed = <<LGomaNinja, LOther, L50>>
  /\ Len(events) = 2 /\ events[1].line = 1 /\ events[2].line = 3
  /\ outcome = "Running"

\* the markers of the sync line handler
PatchRunningMarker(line) ==
  \E i, j \in 1..Len(line) :
     i < j /\ line[i] = "running" /\ line[j] = "apply_all_patches.py"

PatchHookMarker(line) ==
  \E i, j, k \in 1..Len(line) :
     /\ i < j /\ j < k
     /\ line[i] = "Hook" /\ line[j] = "apply_all_patches.py"
     /\ line[k] = "took"

(* C23: in a sync operation every line with the script-running marker     *)
(* reports "Applying Patches", every line with the completion hook marker *)
(* and without the running marker reports "Finishing Up", and neither     *)
(* touches the one-shot Dependencies flag.                                *)
C23_PatchPhases ==
  [][(variant = "sync" /\ fed' # fed) =>
       LET line == LastOf(fed') IN
       /\ PatchRunningMarker(line) =>
             /\ NewPayloads = <<Phase("Applying Patches")>>
             /\ initialProgress' = initialProgress
       /\ (~PatchRunningMarker(line) /\ PatchHookMarker(line)) =>
             /\ NewPayloads = <<Phase("Finishing Up")>>
             /\ initialProgress' = initialProgress
    ]_vars

\* the markers came before any other line: Dependencies was still to come
C23_Witness ==
  /\ variant = "sync" /\ fed = <<LHookRunning, LHook, LDeps>>
  /\ Payloads(events) = <<Phase("Applying Patches"), Phase("Finishing Up"),
                          Phase("Dependencies")>>

(* C24: the baseline stays within 0..100, every increment reported lies   *)
(* within 0..100 and the increments reported never sum to more than 100.  *)
C24_PercentRange ==
  /\ lastBuildProgress \in 0..100
  /\ \A i \in 1..Len(events) :
        events[i].hasInc => events[i].increment \in 0..100
  /\ SumIncrements(events) <= 100

----------------------------------------------------------------------------
(* C25: only the first signal has an effect: at most one failure message  *)
(* is surfaced for an operation, and none after it has settled.           *)
C25_FirstSignalOnly ==
  /\ Len(messages) <= 1
  /\ \A i \in 1..Len(messages) : messages[i].when = "Running"

(* C26: a process error event observed after the cancellation has settled *)
(* the operation as Canceled surfaces no message.                         *)
C26_CancelSuppressesError ==
  \A i \in 1..Len(messages) :
     ~(messages[i].kind = "error" /\ messages[i].when = "Canceled")

(* C27: in the relay variant only the first connection is a data source:  *)
(* no event is reported for a line received on a later connection.        *)
C27_FirstConnectionOnly ==
  \A i \in 1..Len(events) : events[i].conn <= 1

(* C28: a relay build whose task cannot be started settles as Failed with *)
(* a failure message surfaced, reports no progress event and leaves no    *)
(* transport open.                                                        *)
C28_SpawnFailure ==
  phase = "spawnFailed" =>
     /\ outcome = "Failed"
     /\ messages # <<>>
     /\ events = <<>>
     /\ ~transportOpen

(* C29: in the relay variant the connection handler is registered before  *)
(* the task is started: no connection made by the forwarding process,     *)
(* even one made before executeTask has returned, goes without a line     *)
(* handler.                                                               *)
C29_HandlerBeforeStart == ~unheard

\* output arrived, and was reported, while executeTask had not yet returned
C29_Witness ==
  /\ Relay /\ phase = "starting" /\ conns = 1
  /\ fed = <<L10>> /\ Len(events) = 1 /\ events[1].conn = 1

(* C30: in the pipe and sync commands an exit with a null exit code and   *)
(* no prior cancellation surfaces no message and settles the operation    *)
(* as an exit with code 0 does.                                           *)
C30_NullExitCode ==
  [][(Direct /\ ~exitSeen /\ exitSeen' /\ exitCode' = NullCode
      /\ ~cancelSeen) =>
        /\ messages' = messages
        /\ outcome' = IF outcome = "Running" THEN "Succeeded" ELSE outcome
    ]_vars

\* a process ended by a signal, not cancelled: settled, nothing surfaced
C30_Witness ==
  /\ Direct /\ exitSeen /\ exitCode = NullCode /\ ~cancelSeen /\ ~errSeen
  /\ outcome = "Succeeded" /\ messages = <<>>

----------------------------------------------------------------------------
(* The busy flag of utils.ts: withBusyState calls and invocations of a    *)
(* command registered with registerCommandNoBusy.                         *)

buildVars == <<variant, phase, outcome, attempts, killed, cancelSeen, errSeen,
               errText, exitSeen, exitCode, taskEnded, serverErr, messages,
               events, fed, lastBuildProgress, initialProgress, kills,
               transportOpen, conns, rejection, cancelOrder, buffer, sent,
               callerEnv, env, unheard>>

\* withBusyState is called: executeCommand("setContext", ..., true) is
\* issued and awaited
EnterBusy(c) ==
  /\ work[c].pc = "idle"
  /\ work' = [work EXCEPT ![c].pc = "entering"]
  /\ busyContext' = TRUE
  /\ UNCHANGED <<globalBusy, invoked, buildVars, testVars>>

\* the await returns: globalBusy = true; workFn() is called and awaited
StartWork(c) ==
  /\ work[c].pc = "entering"
  /\ work' = [work EXCEPT ![c].pc = "working"]
  /\ globalBusy' = TRUE
  /\ UNCHANGED <<busyContext, invoked, buildVars, testVars>>

\* the work function ends and withBusyState passes its end on, without the
\* finally block
FinishWorkNoFinally(c, o) ==
  /\ work[c].pc = "working"
  /\ work' = [work EXCEPT ![c] = [pc |-> "done", fn |-> o, out |-> o]]
  /\ UNCHANGED <<globalBusy, busyContext, invoked, buildVars, testVars>>

\* the work function returns or throws o (fn): the finally block issues
\* executeCommand("setContext", ..., false), sets globalBusy = false, and
\* the value is returned or the exception thrown on to the caller (out)
FinishWork(c, o) ==
  /\ work[c].pc = "working"
  /\ work' = [work EXCEPT ![c] = [pc |-> "done", fn |-> o, out |-> o]]
  /\ busyContext' = FALSE
  /\ globalBusy' = FALSE
  /\ UNCHANGED <<invoked, buildVars, testVars>>

\* the calls between their entry and the end of their work function
Entered == {c \in 1..MaxBusyCalls : work[c].pc \in {"entering", "working"}}
Working == {c \in 1..MaxBusyCalls : work[c].pc = "working"}

\* the command registered by registerCommandNoBusy is invoked:
\* globalBusy ? busyGuard() : callback(...args)
Invoke ==
  /\ Len(invoked) < MaxInvocations
  /\ invoked' = Append(invoked,
                       [ran |-> IF globalBusy THEN "busyGuard" ELSE "callback",
                        entered |-> Cardinality(Entered),
                        working |-> Cardinality(Working)])
  /\ UNCHANGED <<globalBusy, busyContext, work, buildVars, testVars>>

InitBusy == Init /\ variant = "pipe" /\ callerEnv = DefaultEnv

NextBusy ==
  \/ \E c \in 1..MaxBusyCalls : EnterBusy(c)
  \/ \E c \in 1..MaxBusyCalls : StartWork(c)
  \/ \E c \in 1..MaxBusyCalls : \E o \in WorkOutcomes : FinishWork(c, o)
  \/ Invoke

SpecBusy == InitBusy /\ [][NextBusy]_vars

(* C31: while the work function of at least one withBusyState call is in  *)
(* progress, globalBusy is true.                                          *)
C31_BusyWhileWorking == Working # {} => globalBusy

(* C32: every invocation of a registerCommandNoBusy command calls exactly *)
(* one of busyGuard and callback, and the callback is never reached       *)
(* between the entry of a withBusyState call and the end of its work      *)
(* function.                                                              *)
C32_NoCallbackWhileBusy ==
  \A i \in 1..Len(invoked) :
     /\ invoked[i].ran \in {"busyGuard", "callback"}
     /\ invoked[i].ran = "callback" => invoked[i].entered = 0

(* C33: when the work function returns or throws, globalBusy is set back  *)
(* to false, the busy context is cleared, and the caller of withBusyState *)
(* gets the work function's value or exception as it is.                  *)
C33_IdleRestored ==
  [][\A c \in 1..MaxBusyCalls :
       (work[c].pc = "working" /\ work'[c].pc = "done") =>
          /\ ~globalBusy' /\ ~busyContext'
          /\ work'[c].fn \in WorkOutcomes
          /\ work'[c].out = work'[c].fn]_vars

\* one call returned and another threw, and the flag and the context are
\* back to idle
C33_Witness ==
  /\ \E c, d \in 1..MaxBusyCalls :
        /\ work[c].pc = "done" /\ work[c].out.kind = "return"
        /\ work[d].pc = "done" /\ work[d].out.kind = "throw"
  /\ ~globalBusy /\ ~busyContext

----------------------------------------------------------------------------
(* getElectronTests of utils.ts: the list of tests is read from a socket  *)
(* and parsed when the child process exits.                               *)

\* the printable characters U+0020 .. U+005F, in the order of their codes
AsciiLow == <<
  " ", "!", "\"", "#", "$", "%", "&", "'", "(", ")", "*", "+",
  ",", "-", ".", "/", "0", "1", "2", "3", "4", "5", "6", "7",
  "8", "9", ":", ";", "<", "=", ">", "?", "@", "A", "B", "C",
  "D", "E", "F", "G", "H", "I", "J", "K", "L", "M", "N", "O",
  "P", "Q", "R", "S", "T", "U", "V", "W", "X", "Y", "Z", "[",
  "\\", "]", "^", "_" >>

\* the printable characters U+0061 .. U+007E
AsciiHigh == <<
  "a", "b", "c", "d", "e", "f", "g", "h", "i", "j", "k", "l",
  "m", "n", "o", "p", "q", "r", "s", "t", "u", "v", "w", "x",
  "y", "z", "{", "|", "}", "~" >>

\* a text is the sequence of its UTF-16 code units, as a string of the
\* program is; CodeOf and Codes write the code units of printable
\* characters: the place of a character in the two tables, U+0060 between
\* them, after the 31 codes below U+0020
CodeOf(c) ==
  31 + (CHOOSE i \in 1..95 : i # 65 /\ (AsciiLow \o <<"">> \o AsciiHigh)[i] = c)

Codes(s) == [i \in 1..Len(s) |-> CodeOf(s[i])]

JsonAlphabet == {CodeOf(c) : c \in {"[", "]", ",", "1", "-", " "}}

\* the white space of JSON: space, line feed, tab, carriage return
JsonWs == {32, 10, 9, 13}

Quote == CodeOf("\"")
Backslash == CodeOf("\\")
Zero == CodeOf("0")

\* the length of the longest head of the text made of the codes in set
HeadRun(s, set) ==
  CHOOSE k \in 0..Len(s) :
     /\ \A i \in 1..k : s[i] \in set
     /\ k < Len(s) => s[k + 1] \notin set

\* the text after its leading white space
SkipWs(s) == SubSeq(s, HeadRun(s, JsonWs) + 1, Len(s))

\* a parsed value: kind is null, true, false, number, string, array or
\* object.  A number is a double: infinite, or neg, bits and exp for the
\* significand bits * 2^exp, the bits most significant first and ending in
\* a 1, or no bits for zero.  A string is its code units; an array is its
\* items; an object is its keys, in the order Object.keys gives them, and
\* the item of each key.
JsonOf(kind, num, str, keys, items) ==
  [kind |-> kind, neg |-> num.neg, inf |-> num.inf, bits |-> num.bits,
   exp |-> num.exp, str |-> str, keys |-> keys, items |-> items]

NoDouble == [neg |-> FALSE, inf |-> FALSE, bits |-> <<>>, exp |-> 0]

JsonLiteral(kind) == JsonOf(kind, NoDouble, <<>>, <<>>, <<>>)

\* the text is not JSON
JsonFail == [ok |-> FALSE, val |-> JsonLiteral("null"), rest |-> <<>>]

JsonOk(val, rest) == [ok |-> TRUE, val |-> val, rest |-> rest]

IsDigitCode(c) == c >= Zero /\ c <= Zero + 9

\* the digits at the head of the text
DigitCodes(s) == SubSeq(s, 1, HeadRun(s, Zero..(Zero + 9)))

\* the digits without their leading zeros
StripZeros(ds) == SubSeq(ds, HeadRun(ds, {Zero}) + 1, Len(ds))

RECURSIVE DecimalValue(_)
\* the number written by a few digits
DecimalValue(ds) ==
  IF ds = <<>> THEN 0
  ELSE DecimalValue(SubSeq(ds, 1, Len(ds) - 1)) * 10 + (ds[Len(ds)] - Zero)

\* a natural number of any size: its digits in base Limb, the least
\* significant first, the last one not 0; no digit for 0
Limb == 32768
LimbBits == 15

\* a without its leading zero digits
BigTrim(a) ==
  SubSeq(a, 1, CHOOSE k \in 0..Len(a) :
                  /\ \A i \in (k + 1)..Len(a) : a[i] = 0
                  /\ k > 0 => a[k] # 0)

\* a with zero digits in front, n digits in all
BigPad(a, n) == a \o [i \in 1..(n - Len(a)) |-> 0]

RECURSIVE Ripple(_, _, _, _)
\* the digits of a * m + b + carry, for a and b of one length, and the
\* carry out of them: the lower half of the digits first, its carry into
\* the upper half
Ripple(a, b, m, carry) ==
  IF a = <<>> THEN [d |-> <<>>, c |-> carry]
  ELSE IF Len(a) = 1
       THEN [d |-> <<(a[1] * m + b[1] + carry) % Limb>>,
             c |-> (a[1] * m + b[1] + carry) \div Limb]
       ELSE LET h == Len(a) \div 2
                lo == Ripple(SubSeq(a, 1, h), SubSeq(b, 1, h), m, carry)
                hi == Ripple(SubSeq(a, h + 1, Len(a)),
                             SubSeq(b, h + 1, Len(b)), m, lo.c)
            IN [d |-> lo.d \o hi.d, c |-> hi.c]

\* a * m + carry, for m and carry below Limb
BigTimes(a, m, carry) ==
  LET r == Ripple(a, BigPad(<<>>, Len(a)), m, carry)
  IN BigTrim(r.d \o <<r.c>>)

\* a + b
BigPlus(a, b) ==
  LET n == IF Len(a) > Len(b) THEN Len(a) ELSE Len(b)
      r == Ripple(BigPad(a, n), BigPad(b, n), 1, 0)
  IN BigTrim(r.d \o <<r.c>>)

\* a - b, for a >= b: a plus the complement of b plus 1, without the carry
BigMinus(a, b) ==
  LET nb == BigPad(b, Len(a))
  IN BigTrim(Ripple(a, [i \in 1..Len(a) |-> Limb - 1 - nb[i]], 1, 1).d)

RECURSIVE BigMul(_, _)
\* a * b: a times the lower digits of b, plus a times the upper ones
BigMul(a, b) ==
  IF a = <<>> \/ b = <<>> THEN <<>>
  ELSE IF Len(b) = 1 THEN BigTimes(a, b[1], 0)
       ELSE LET h == Len(b) \div 2
                up == BigMul(a, SubSeq(b, h + 1, Len(b)))
            IN BigPlus(BigMul(a, SubSeq(b, 1, h)),
                       IF up = <<>> THEN <<>> ELSE [i \in 1..h |-> 0] \o up)

RECURSIVE BigPow10(_)
\* 10^k
BigPow10(k) ==
  IF k = 0 THEN <<1>>
  ELSE IF k % 2 = 1 THEN BigTimes(BigPow10(k - 1), 10, 0)
       ELSE LET h == BigPow10(k \div 2) IN BigMul(h, h)

\* a * 2^s
BigShl(a, s) ==
  IF a = <<>> THEN <<>>
  ELSE [i \in 1..(s \div LimbBits) |-> 0] \o BigTimes(a, 2 ^ (s % LimbBits), 0)

RECURSIVE BigDigits(_)
\* the number written by the decimal digits ds
BigDigits(ds) ==
  IF Len(ds) <= 4
  THEN (IF DecimalValue(ds) = 0 THEN <<>> ELSE <<DecimalValue(ds)>>)
  ELSE LET h == Len(ds) \div 2
       IN BigPlus(BigMul(BigDigits(SubSeq(ds, 1, Len(ds) - h)), BigPow10(h)),
                  BigDigits(SubSeq(ds, Len(ds) - h + 1, Len(ds))))

BigLess(a, b) ==
  \/ Len(a) < Len(b)
  \/ /\ Len(a) = Len(b)
     /\ \E i \in 1..Len(a) :
           a[i] < b[i] /\ \A j \in (i + 1)..Len(a) : a[j] = b[j]

\* the number of bits of a
BitLen(a) ==
  IF a = <<>> THEN 0
  ELSE LimbBits * (Len(a) - 1)
       + (CHOOSE k \in 1..LimbBits :
             2 ^ (k - 1) <= a[Len(a)] /\ a[Len(a)] < 2 ^ k)

\* the bits of a, the most significant first
BigBits(a) ==
  [i \in 1..BitLen(a) |->
     LET k == BitLen(a) - i
     IN (a[(k \div LimbBits) + 1] \div (2 ^ (k % LimbBits))) % 2]

RECURSIVE QuotientBits(_, _, _)
\* the next n bits of r / t after the binary point, for r < t, and the
\* rest of the division: the first half of the bits, then the other half
\* from the rest the first half leaves
QuotientBits(r, t, n) ==
  IF n = 1
  THEN (IF BigLess(BigTimes(r, 2, 0), t)
        THEN [bits |-> <<0>>, rest |-> BigTimes(r, 2, 0)]
        ELSE [bits |-> <<1>>, rest |-> BigMinus(BigTimes(r, 2, 0), t)])
  ELSE LET hi == QuotientBits(r, t, n \div 2)
           lo == QuotientBits(hi.rest, t, n - n \div 2)
       IN [bits |-> hi.bits \o lo.bits, rest |-> lo.rest]

\* the bits of the number plus one: the last 0 bit becomes 1 and the 1 bits
\* after it become 0
BitsInc(b) ==
  LET k == CHOOSE k \in 0..Len(b) :
              /\ \A i \in (k + 1)..Len(b) : b[i] = 1
              /\ k > 0 => b[k] = 0
  IN (IF k = 0 THEN <<>> ELSE SubSeq(b, 1, k - 1)) \o <<1>>
     \o [i \in 1..(Len(b) - k) |-> 0]

\* the widths of a double: 53 bits of significand, the smallest power of
\* two of its last bit, and the power of two no finite double reaches
SignificandBits == 53
MinExponent == 0 - 1074
MaxExponent == 1024

\* the double bits * 2^exp, written without trailing zero bits
DoubleOf(neg, b, exp) ==
  LET k == CHOOSE k \in 0..Len(b) :
              /\ \A i \in (k + 1)..Len(b) : b[i] = 0
              /\ k > 0 => b[k] = 1
  IN [neg |-> neg, inf |-> FALSE, bits |-> SubSeq(b, 1, k),
      exp |-> IF k = 0 THEN 0 ELSE exp + Len(b) - k]

\* the double nearest to q.bits * 2^ex plus something below 2^ex when
\* q.rest is not 0, ties to the even significand
RoundDouble(neg, q, ex) ==
  LET x == SubSeq(q.bits, HeadRun(q.bits, {0}) + 1, Len(q.bits))
      sticky == q.rest # <<>>
      L == Len(x)
      e == IF ex + L - SignificandBits > MinExponent
           THEN ex + L - SignificandBits ELSE MinExponent
      drop == IF e > ex THEN e - ex ELSE 0
      kept == SubSeq(x, 1, L - drop)
      guard == IF drop > 0 /\ L - drop + 1 >= 1 THEN x[L - drop + 1] ELSE 0
      below == sticky \/ \E i \in 1..L : i > L - drop + 1 /\ x[i] = 1
      up == guard = 1 /\ (below \/ (kept # <<>> /\ kept[Len(kept)] = 1))
      m == IF up THEN BitsInc(kept) ELSE kept
  IN IF Len(m) + ex + drop > MaxExponent THEN [neg |-> neg, inf |-> TRUE, bits |-> <<>>, exp |-> 0]
     ELSE DoubleOf(neg, m, ex + drop)

\* the decimal exponents beyond which every number is infinite, or is zero
MaxDecimal == 309
MinDecimal == 0 - 324

\* the double nearest to a / b * 2^-ex, for ex the power of two of the last
\* of 55 quotient bits: d, two bits below the 53 of the significand, or the
\* one below the smallest subnormal when d is below it
ScaledQuotient(neg, a, b, d) ==
  LET ex == IF d > MinExponent - 1 THEN d ELSE MinExponent - 1
  IN RoundDouble(neg,
                 QuotientBits(IF ex < 0 THEN BigShl(a, 0 - ex) ELSE a,
                              BigShl(IF ex < 0 THEN b ELSE BigShl(b, ex),
                                     SignificandBits + 2),
                              SignificandBits + 2),
                 ex)

\* the double nearest to a / b
DecimalQuotient(neg, a, b) ==
  ScaledQuotient(neg, a, b, BitLen(a) - BitLen(b) - 1 - SignificandBits)

\* the double nearest to the decimal digits ds * 10^e10, ds without
\* leading zeros
DecimalDouble(neg, ds, e10) ==
  IF ds = <<>> THEN DoubleOf(neg, <<>>, 0)
  ELSE IF Len(ds) + e10 > MaxDecimal
       THEN [neg |-> neg, inf |-> TRUE, bits |-> <<>>, exp |-> 0]
  ELSE IF Len(ds) + e10 < MinDecimal THEN DoubleOf(neg, <<>>, 0)
  ELSE IF e10 >= 0
       THEN RoundDouble(neg,
                        [bits |-> BigBits(BigMul(BigDigits(ds), BigPow10(e10))),
                         rest |-> <<>>],
                        0)
       ELSE DecimalQuotient(neg, BigDigits(ds), BigPow10(0 - e10))

\* the end of a number: an optional exponent, e or E, an optional sign and
\* digits of any length; ds are the digits read, the last fracLen of them
\* the fraction.  An exponent above the number of the digits by more than
\* 324 is one no digit balances (far): the number is then Infinity, or 0
\* when the exponent is negative or the digits are all 0
ParseJsonExponent(neg, ds, fracLen, r) ==
  LET hasExp == r # <<>> /\ Head(r) \in {CodeOf("e"), CodeOf("E")}
      signed == hasExp /\ Len(r) >= 2 /\ r[2] \in {CodeOf("-"), CodeOf("+")}
      from == IF signed THEN 3 ELSE 2
      exp == IF hasExp THEN DigitCodes(SubSeq(r, from, Len(r))) ELSE <<>>
      expNeg == signed /\ r[2] = CodeOf("-")
      most == Len(ds) - MinDecimal
      far == BigLess(BigTrim(<<most % Limb, (most \div Limb) % Limb,
                               most \div (Limb * Limb)>>),
                     BigDigits(StripZeros(exp)))
      num == IF StripZeros(ds) = <<>> \/ (far /\ expNeg)
             THEN DoubleOf(neg, <<>>, 0)
             ELSE IF far THEN [neg |-> neg, inf |-> TRUE, bits |-> <<>>, exp |-> 0]
             ELSE DecimalDouble(neg, StripZeros(ds),
                                (IF expNeg THEN 0 - DecimalValue(StripZeros(exp))
                                 ELSE DecimalValue(StripZeros(exp))) - fracLen)
  IN IF hasExp /\ exp = <<>> THEN JsonFail
     ELSE JsonOk(JsonOf("number", num, <<>>, <<>>, <<>>),
                 IF hasExp THEN SubSeq(r, from + Len(exp), Len(r)) ELSE r)

\* the middle of a number: an optional fraction, a point and digits
ParseJsonFraction(neg, int, r) ==
  LET hasFrac == r # <<>> /\ Head(r) = CodeOf(".")
      frac == IF hasFrac THEN DigitCodes(Tail(r)) ELSE <<>>
  IN IF hasFrac /\ frac = <<>> THEN JsonFail
     ELSE ParseJsonExponent(neg, int \o frac, Len(frac),
                            IF hasFrac THEN SubSeq(r, Len(frac) + 2, Len(r))
                            ELSE r)

\* a number: an optional minus sign, an integer part without a leading
\* zero, an optional fraction and an optional exponent
ParseJsonNumber(t) ==
  LET neg == Head(t) = CodeOf("-")
      b == IF neg THEN Tail(t) ELSE t
      int == IF b # <<>> /\ Head(b) = Zero THEN <<Zero>> ELSE DigitCodes(b)
  IN IF int = <<>> THEN JsonFail
     ELSE ParseJsonFraction(neg, int, SubSeq(b, Len(int) + 1, Len(b)))

\* the characters that may follow a backslash, besides u
JsonEscapes == {CodeOf(c) : c \in {"\"", "\\", "/", "b", "f", "n", "r", "t"}}

\* the code unit an escape stands for
JsonUnescape(c) ==
  CASE c = CodeOf("b") -> 8
    [] c = CodeOf("f") -> 12
    [] c = CodeOf("n") -> 10
    [] c = CodeOf("r") -> 13
    [] c = CodeOf("t") -> 9
    [] OTHER -> c

IsHexCode(c) ==
  \/ IsDigitCode(c)
  \/ c >= CodeOf("a") /\ c <= CodeOf("f")
  \/ c >= CodeOf("A") /\ c <= CodeOf("F")

HexCodeVal(c) ==
  IF IsDigitCode(c) THEN c - Zero
  ELSE IF c >= CodeOf("a") THEN c - CodeOf("a") + 10
       ELSE c - CodeOf("A") + 10

\* the code unit written by four hexadecimal digits
UnicodeEscape(h) ==
  ((HexCodeVal(h[1]) * 16 + HexCodeVal(h[2])) * 16 + HexCodeVal(h[3])) * 16
  + HexCodeVal(h[4])

\* the number of backslashes just before position i of the text
SlashRun(t, i) ==
  CHOOSE k \in 0..(i - 1) :
     /\ \A j \in (i - k)..(i - 1) : t[j] = Backslash
     /\ k < i - 1 => t[i - k - 1] # Backslash

\* a string: a quote and the text t after it.  The string ends at the first
\* quote that no backslash escapes, one after an even number of
\* backslashes; an escape starts at a backslash after an even number of
\* them and is 2 code units long, or 6 for \u; every other code unit
\* stands for itself and may not be a control character, below U+0020
ParseJsonString(s) ==
  LET t == IF s # <<>> /\ Head(s) = Quote THEN Tail(s) ELSE <<>>
      ends == {i \in 1..Len(t) : t[i] = Quote /\ SlashRun(t, i) % 2 = 0}
      n == (CHOOSE i \in ends : \A j \in ends : i <= j) - 1
      esc == {i \in 1..n : t[i] = Backslash /\ SlashRun(t, i) % 2 = 0}
      IsUnicode(i) == t[i + 1] = CodeOf("u")
      inside == {i \in 1..n :
                   \E e \in esc : e < i /\ i < e + (IF IsUnicode(e) THEN 6 ELSE 2)}
      starts == (1..n) \ inside
      CharAt(i) == IF i \notin esc THEN t[i]
                   ELSE IF IsUnicode(i)
                        THEN UnicodeEscape(SubSeq(t, i + 2, i + 5))
                        ELSE JsonUnescape(t[i + 1])
      Nth(k) == CHOOSE i \in starts : Cardinality({j \in starts : j < i}) = k - 1
  IN IF ends = {} THEN JsonFail
     ELSE IF /\ \A i \in esc :
                   \/ t[i + 1] \in JsonEscapes
                   \/ /\ IsUnicode(i) /\ i + 5 <= n
                      /\ \A j \in (i + 2)..(i + 5) : IsHexCode(t[j])
             /\ \A i \in starts \ esc : t[i] >= 32
          THEN JsonOk(JsonOf("string", NoDouble,
                             [k \in 1..Cardinality(starts) |-> CharAt(Nth(k))],
                             <<>>, <<>>),
                      SubSeq(t, n + 2, Len(t)))
          ELSE JsonFail

\* the largest array index, 2^32 - 2
MaxIndex == Codes(<<"4", "2", "9", "4", "9", "6", "7", "2", "9", "4">>)

\* the number of digits a is below the number of digits b, neither with
\* leading zeros
IndexLess(a, b) ==
  \/ Len(a) < Len(b)
  \/ /\ Len(a) = Len(b)
     /\ \E i \in 1..Len(a) : a[i] < b[i] /\ \A j \in 1..(i - 1) : a[j] = b[j]

\* the key is an array index: the canonical decimal text of 0 .. 2^32 - 2
IsArrayIndex(key) ==
  /\ key # <<>>
  /\ \A i \in 1..Len(key) : IsDigitCode(key[i])
  /\ Len(key) > 1 => key[1] # Zero
  /\ key = MaxIndex \/ IndexLess(key, MaxIndex)

\* the items read so far from an array or an object: done when its closing
\* bracket is read; NoItems when the text is not JSON
NoItems == [ok |-> FALSE, done |-> TRUE, items |-> <<>>, rest |-> <<>>]

\* no array or object of the text has more items than this
MostItems(t) == 1 + Cardinality({i \in 1..Len(t) : t[i] = CodeOf(",")})

\* the object of the members read, each a key and an item, when its "}" is
\* read.  Its keys are in the order Object.keys gives them: the array
\* indices in ascending order, then the other keys in the order of their
\* first member; the item of a key is the one of its last member
JsonObject(r) ==
  LET ms == r.items
      keys == {ms[i].key : i \in 1..Len(ms)}
      First(k) == CHOOSE i \in 1..Len(ms) :
                     ms[i].key = k /\ \A j \in 1..(i - 1) : ms[j].key # k
      Last(k) == CHOOSE i \in 1..Len(ms) :
                    ms[i].key = k /\ \A j \in (i + 1)..Len(ms) : ms[j].key # k
      KeyBefore(a, b) == IF IsArrayIndex(a)
                         THEN ~IsArrayIndex(b) \/ IndexLess(a, b)
                         ELSE ~IsArrayIndex(b) /\ First(a) < First(b)
      Key(p) == CHOOSE k \in keys :
                   Cardinality({j \in keys : KeyBefore(j, k)}) = p - 1
  IN IF r.ok /\ r.done
     THEN JsonOk(JsonOf("object", NoDouble, <<>>,
                        [p \in 1..Cardinality(keys) |-> Key(p)],
                        [p \in 1..Cardinality(keys) |-> ms[Last(Key(p))].val]),
                 r.rest)
     ELSE JsonFail

\* the array of the items read, when its "]" is read
JsonArray(r) ==
  IF r.ok /\ r.done
  THEN JsonOk(JsonOf("array", NoDouble, <<>>, <<>>, r.items), r.rest)
  ELSE JsonFail

LiteralTrue == Codes(<<"t", "r", "u", "e">>)
LiteralFalse == Codes(<<"f", "a", "l", "s", "e">>)
LiteralNull == Codes(<<"n", "u", "l", "l">>)

StartsWith(t, w) == Len(t) >= Len(w) /\ SubSeq(t, 1, Len(w)) = w

RECURSIVE ParseJsonValue(_)
RECURSIVE ParseJsonElements(_, _)
RECURSIVE ParseJsonMembers(_, _)
RECURSIVE ParseJsonMember(_)

\* at most n items of an array, from the text after "[" or ",": each a
\* value, then "," or "]"; the first half of them, then the other half
ParseJsonElements(t, n) ==
  IF n <= 1
  THEN LET v == ParseJsonValue(t)
           w == SkipWs(v.rest)
       IN IF ~v.ok \/ w = <<>> \/ Head(w) \notin {CodeOf(","), CodeOf("]")}
          THEN NoItems
          ELSE [ok |-> TRUE, done |-> Head(w) = CodeOf("]"),
                items |-> <<v.val>>, rest |-> Tail(w)]
  ELSE LET a == ParseJsonElements(t, n \div 2)
           b == ParseJsonElements(a.rest, n - n \div 2)
       IN IF a.done THEN a ELSE [b EXCEPT !.items = a.items \o @]

\* a member of an object after its key k: ":", a value, then "," or "}"
ParseJsonMember(k) ==
  LET c == SkipWs(k.rest)
      v == IF k.ok /\ c # <<>> /\ Head(c) = CodeOf(":")
           THEN ParseJsonValue(Tail(c))
           ELSE JsonFail
      w == SkipWs(v.rest)
  IN IF ~v.ok \/ w = <<>> \/ Head(w) \notin {CodeOf(","), CodeOf("}")}
     THEN NoItems
     ELSE [ok |-> TRUE, done |-> Head(w) = CodeOf("}"),
           items |-> <<[key |-> k.val.str, val |-> v.val]>>, rest |-> Tail(w)]

\* at most n members of an object, from the text after "{" or ",": each a
\* string as its key and the rest of the member
ParseJsonMembers(t, n) ==
  IF n <= 1 THEN ParseJsonMember(ParseJsonString(SkipWs(t)))
  ELSE LET a == ParseJsonMembers(t, n \div 2)
           b == ParseJsonMembers(a.rest, n - n \div 2)
       IN IF a.done THEN a ELSE [b EXCEPT !.items = a.items \o @]

\* one value at the head of the text, after white space
ParseJsonValue(s) ==
  LET t == SkipWs(s)
      in == SkipWs(Tail(t))
  IN CASE t = <<>> -> JsonFail
       [] StartsWith(t, LiteralTrue) ->
            JsonOk(JsonLiteral("true"), SubSeq(t, 5, Len(t)))
       [] StartsWith(t, LiteralFalse) ->
            JsonOk(JsonLiteral("false"), SubSeq(t, 6, Len(t)))
       [] StartsWith(t, LiteralNull) ->
            JsonOk(JsonLiteral("null"), SubSeq(t, 5, Len(t)))
       [] t # <<>> /\ (Head(t) = CodeOf("-") \/ IsDigitCode(Head(t))) ->
            ParseJsonNumber(t)
       [] t # <<>> /\ Head(t) = Quote -> ParseJsonString(t)
       [] t # <<>> /\ Head(t) = CodeOf("[") ->
            IF in # <<>> /\ Head(in) = CodeOf("]")
            THEN JsonOk(JsonLiteral("array"), Tail(in))
            ELSE JsonArray(ParseJsonElements(Tail(t), MostItems(t)))
       [] t # <<>> /\ Head(t) = CodeOf("{") ->
            IF in # <<>> /\ Head(in) = CodeOf("}")
            THEN JsonOk(JsonLiteral("object"), Tail(in))
            ELSE JsonObject(ParseJsonMembers(Tail(t), MostItems(t)))
       [] OTHER -> JsonFail

\* the value read when nothing but white space follows it
WholeText(v) == IF v.ok /\ SkipWs(v.rest) = <<>> THEN v ELSE JsonFail

\* JSON.parse(text): one value, with white space around it and nothing else
JsonParse(s) == WholeText(ParseJsonValue(s))

\* JSON.parse(text) does not throw
IsJsonValue(s) == JsonParse(s).ok

\* the value JSON.parse(text) returns
JsonValue(s) == JsonParse(s).val

Resolved(v) == [state |-> "resolved", value |-> v]
Rejected(r) == [state |-> "rejected", value |-> r]

\* a promise that takes every resolve and reject call
SettlePromiseLastWins(p, new) == new

\* resolve / reject of the promise: the first call settles it
SettlePromise(p, new) == IF p.state = "pending" THEN new ELSE p

\* cp.on("exit") of getElectronTests
ExitSettlement(code, text) ==
  IF code # 0 THEN Rejected("Non-zero exit code")
  ELSE IF IsJsonValue(text) THEN Resolved(JsonValue(text))
       ELSE Rejected("SyntaxError")

ExitEvent(code) ==
  IF code = NullCode THEN "exit:null"
  ELSE IF code = 0 THEN "exit:0" ELSE "exit:1"

ExitEvents == {"exit:null", "exit:0", "exit:1"}
TestExitCodes == {NullCode, 0, 1}

\* socketServer.on("connection"): the listeners of the socket are set
TestsConnect ==
  /\ "connection" \notin testsSeen /\ "notListening" \notin testsSeen
  /\ testsSeen' = testsSeen \cup {"connection"}
  /\ UNCHANGED <<result, testsPromise, buildVars, busyVars>>

\* socket.on("data"): result += data.toString()
TestsData(data) ==
  /\ "connection" \in testsSeen /\ "socketError" \notin testsSeen
  /\ Len(result) + Len(data) <= MaxData
  /\ result' = result \o data
  /\ UNCHANGED <<testsPromise, testsSeen, buildVars, busyVars>>

\* socket.on("error", reject)
TestsSocketError ==
  /\ "connection" \in testsSeen /\ "socketError" \notin testsSeen
  /\ testsSeen' = testsSeen \cup {"socketError"}
  /\ testsPromise' = SettlePromise(testsPromise, Rejected("socket error"))
  /\ UNCHANGED <<result, buildVars, busyVars>>

\* socketServer.on("error", reject): listen(socketName) has failed and
\* the server does not listen, or accepting a connection has failed and
\* the server still listens
TestsServerError(kind) ==
  /\ "serverError" \notin testsSeen
  /\ kind = "listen" => "connection" \notin testsSeen
  /\ testsSeen' = testsSeen \cup (IF kind = "listen"
                                  THEN {"serverError", "notListening"}
                                  ELSE {"serverError"})
  /\ testsPromise' = SettlePromise(testsPromise, Rejected("server error"))
  /\ UNCHANGED <<result, buildVars, busyVars>>

\* cp.on("error", reject)
TestsProcError ==
  /\ "error" \notin testsSeen
  /\ testsSeen' = testsSeen \cup {"error"}
  /\ testsPromise' = SettlePromise(testsPromise, Rejected("process error"))
  /\ UNCHANGED <<result, buildVars, busyVars>>

\* cp.on("exit", (exitCode) => ...)
TestsExit(code) ==
  /\ testsSeen \cap ExitEvents = {}
  /\ testsSeen' = testsSeen \cup {ExitEvent(code)}
  /\ testsPromise' = SettlePromise(testsPromise, ExitSettlement(code, result))
  /\ UNCHANGED <<result, buildVars, busyVars>>

InitTests == Init /\ variant = "pipe" /\ callerEnv = DefaultEnv

NextTests ==
  \/ TestsConnect
  \/ \E d \in JsonAlphabet : TestsData(<<d>>)
  \/ TestsSocketError
  \/ \E k \in ServerErrorKinds : TestsServerError(k)
  \/ TestsProcError
  \/ \E c \in TestExitCodes : TestsExit(c)

SpecTests == InitTests /\ [][NextTests]_vars

\* the step is the event named
Fires(event) == event \notin testsSeen /\ event \in testsSeen'

(* C34: getElectronTests settles at most once; it resolves only at the    *)
(* exit of the child with code 0 and with the value parsed from the data  *)
(* received by then; a non-zero exit, a process error, a socket error, a  *)
(* server error or data that does not parse rejects it; data received     *)
(* after the exit changes nothing.                                        *)
C34_TestsSettlement ==
  [][/\ testsPromise.state # "pending" => testsPromise' = testsPromise
     /\ (testsPromise.state = "pending" /\ testsPromise'.state = "resolved") =>
           /\ Fires("exit:0")
           /\ IsJsonValue(result)
           /\ testsPromise'.value = JsonValue(result)
     /\ (testsPromise.state = "pending"
         /\ \/ Fires("exit:1") \/ Fires("exit:null") \/ Fires("error")
            \/ Fires("socketError") \/ Fires("serverError")
            \/ (Fires("exit:0") /\ ~IsJsonValue(result))) =>
           testsPromise'.state = "rejected"
     /\ (testsSeen' = testsSeen /\ result' # result) =>
           testsPromise' = testsPromise
    ]_vars

\* the list [-1] was parsed at the exit; a character received afterwards
\* has made the data unparsable and the resolved value is still the list
C34_Witness ==
  /\ testsPromise.state = "resolved" /\ "exit:0" \in testsSeen
  /\ testsPromise.value = JsonValue(Codes(<<"[", "-", "1", "]">>))
  /\ Len(testsPromise.value.items) = 1
  /\ testsPromise.value.items[1].neg
  /\ testsPromise.value.items[1].bits = <<1>>
  /\ testsPromise.value.items[1].exp = 0
  /\ result = Codes(<<"[", "-", "1", "]", "]">>) /\ ~IsJsonValue(result)

====
